---- MODULE Spec2Model ----
(***************************************************************************)
(* Model of smpclient/transport/ble.py: class SMPBLETransport.              *)
(*                                                                         *)
(* The transport runs on one asyncio event loop.  A coroutine runs without *)
(* interruption from one suspension point to the next, so every action     *)
(* below is the code between two suspension points.  The asyncio.Condition *)
(* lock is never contended: it is released at every Condition.wait() and   *)
(* at the end of every `async with`, and no other await sits inside a      *)
(* critical section, so `async with self._notify_condition` never          *)
(* suspends.  Condition.wait() is the only suspension point of receive(),  *)
(* each write_gatt_char() the only suspension point of send().             *)
(*                                                                         *)
(* The GATT link (bleak's BleakClient) and the peer behind it are the      *)
(* environment: the peer starts response messages and the link delivers    *)
(* them as notifications cut at arbitrary byte positions, drops the        *)
(* connection, renegotiates the MTU, completes or fails writes.            *)
(***************************************************************************)
EXTENDS Integers, Sequences, FiniteSets, TLC

\* ---------------------------------------------------------------- bounds
\* Largest payload length a response header declares.
MaxPayload == 1
\* Number of response messages the peer starts in one behaviour.
MaxMsgs == 2
\* Largest len(data) handed to send().
MaxData == 3
\* Largest mtu_size the link reports.
MaxMtuSize == 5
\* Number of links connect() establishes in one behaviour.
MaxConnects == 2

\* ------------------------------------------------------------- constants
\* smphdr.Header.SIZE, the size of the fixed SMP header ("!BBHHBB").
HEADER_SIZE == 8
\* The ATT notification/write overhead subtracted from mtu_size.
ATT_OVERHEAD == 3

\* The caller's task "app", and a second task for a caller that breaks the
\* one-receive-in-flight discipline.
Callers == {"app", "rx2"}

None == <<>>

Min(a, b) == IF a < b THEN a ELSE b

\* Python's s[lo : hi] for 0 <= lo (0-based, clamped to len(s)).
Slice(s, lo, hi) == SubSeq(s, lo + 1, Min(hi, Len(s)))

\* ------------------------------------------------------------ SMP header
\* smphdr.Header.dumps: op/version, flags, length (u16 big endian),
\* group_id (u16 big endian), sequence, command_id.
MkHeader(len, seq) == <<3, 0, len \div 256, len % 256, 0, 1, seq, 7>>

\* A whole response: the header declaring len payload bytes, then the payload.
MkMessage(len, seq) == MkHeader(len, seq) \o [i \in 1..len |-> 10 * seq + i]

\* smphdr.Header.loads(b).length: the u16 big-endian field at bytes 2..3.
HeaderLength(b) == b[3] * 256 + b[4]

\* message_length = header.length + header.SIZE
MessageLength(buf) == HeaderLength(Slice(buf, 0, HEADER_SIZE)) + HEADER_SIZE

\* --------------------------------------------------------------- results
\* What a call ended with: the exception class raised (kind) and the source
\* line raising it, or "ok" and the value returned.
Ok(o, v) == [op |-> o, kind |-> "ok", line |-> 0, value |-> v]
Err(o, k, l) == [op |-> o, kind |-> k, line |-> l, value |-> None]
Pending(o) == [op |-> o, kind |-> "none", line |-> 0, value |-> None]
NoCall == Pending("none")

VARIABLES
    connected,      \* self.connected
    buffer,         \* self._buffer
    waiters,        \* self._notify_condition._waiters: the tasks whose wait() is not yet notified
    pc,             \* per caller task: where it is suspended
    message_length, \* receive()'s local message_length, per task
    result,         \* per caller task: how its current/last call ended
    link,           \* self._client: "none" (never created), "up", "down"
    subscribed,     \* start_notify() done on the current link
    charSet,        \* self._smp_characteristic has been assigned
    mtu_size,       \* self._client.mtu_size
    disconnectTask, \* a _notify_disconnected() task is created and has not run
    sendData,       \* send()'s argument data
    sendStep,       \* the step of range(0, len(data), self.mtu), fixed at loop entry
    sendOffset,     \* the loop variable offset
    sendSeg,        \* the segment handed to the write_gatt_char() in flight
    sendThenRecv,   \* the send() in flight is send_and_receive()'s
    written,        \* the link: segments written by the current/last send(), in order
    peerMsg,        \* the peer: the response being notified
    peerPos,        \* the peer: bytes of peerMsg already notified
    nmsgs,          \* the peer: responses started so far
    nconnects,      \* links established so far
    cbRaised,       \* the last _notify_callback() raised SMPBLETransportException
    clean,          \* history: the receive() of "app" began on an empty buffer at a
                    \* message boundary with no other receive() in flight (1), and
                    \* exactly one response began since (2), the link staying up; else 0
    mtuStable,      \* history: the MTU has not changed since the last send() began
    unlocked,       \* history: the shared attributes assigned so far by code that is
                    \* not inside `async with self._notify_condition`
    accepted        \* history: the bytes of the chunks the link handed to
                    \* _notify_callback and it accepted since the buffer was last
                    \* cleared, in the order the link delivered them

vars == <<connected, buffer, waiters, pc, message_length, result, link, subscribed,
          charSet, mtu_size, disconnectTask, sendData, sendStep, sendOffset, sendSeg,
          sendThenRecv, written, peerMsg, peerPos, nmsgs, nconnects, cbRaised,
          clean, mtuStable, unlocked, accepted>>

recvVars == <<message_length, clean>>
sendVars == <<sendData, sendStep, sendOffset, sendSeg, sendThenRecv, written, mtuStable>>
peerVars == <<peerMsg, peerPos, nmsgs>>
linkVars == <<link, subscribed, charSet, mtu_size, nconnects>>

Range(s) == {s[i] : i \in DOMAIN s}

\* __init__
Init ==
    /\ connected = FALSE
    /\ buffer = <<>>
    /\ waiters = <<>>
    /\ pc = [t \in Callers |-> "idle"]
    /\ message_length = [t \in Callers |-> 0]
    /\ result = [t \in Callers |-> NoCall]
    /\ link = "none"
    /\ subscribed = FALSE
    /\ charSet = FALSE
    /\ mtu_size = ATT_OVERHEAD + 1
    /\ disconnectTask = FALSE
    /\ sendData = <<>>
    /\ sendStep = 0
    /\ sendOffset = 0
    /\ sendSeg = <<>>
    /\ sendThenRecv = FALSE
    /\ written = <<>>
    /\ peerMsg = <<>>
    /\ peerPos = 0
    /\ nmsgs = 0
    /\ nconnects = 0
    /\ cbRaised = FALSE
    /\ clean = 0
    /\ mtuStable = TRUE
    /\ unlocked = {}
    /\ accepted = <<>>

\* ------------------------------------------------------------- condition
\* Mutant of Notify: the notification is lost.
NotifyNobody(ws) == ws

\* asyncio.Condition.notify(): completes the future of the first waiter that
\* is not yet notified; that task is then ready to resume.
Notify(ws) == IF ws = <<>> THEN ws ELSE Tail(ws)

\* A task suspended in Condition.wait() whose future is still pending.
Blocked(t) == pc[t] \in {"wait_hdr", "wait_body"} /\ t \in Range(waiters)
\* A task suspended in Condition.wait() that has been notified.
Woken(t) == pc[t] \in {"wait_hdr", "wait_body"} /\ t \notin Range(waiters)
InReceive(t) == pc[t] \in {"wait_hdr", "wait_body"}

\* An assignment to the shared attribute attr ("connected", "buffer"), made
\* inside (inLock) or outside an `async with self._notify_condition` block.
Assigns(u, attr, inLock) == IF inLock THEN u ELSE u \cup {attr}

\* Mutant of CheckConnectedRaises: the check never raises.
CheckConnectedNever(c) == FALSE

\* _check_connected: TRUE when it raises.
CheckConnectedRaises(c) == ~c

\* @property mtu
Mtu(size) == size - ATT_OVERHEAD

\* The call of task t ends with r.
Finish(t, r) ==
    /\ pc' = [pc EXCEPT ![t] = "idle"]
    /\ result' = [result EXCEPT ![t] = r]

\* The history of the last send() is dropped when the caller makes its next call.
ForgetSend ==
    /\ sendData' = <<>>
    /\ written' = <<>>
    /\ mtuStable' = TRUE
    /\ sendThenRecv' = FALSE
    /\ UNCHANGED <<sendStep, sendOffset, sendSeg>>

\* ------------------------------------------------------------- receive()
\* Mutant of HeaderMissing: the bound is off by one.
HeaderMissingOffByOne(buf) == Len(buf) < HEADER_SIZE - 1

\* len(self._buffer) < smphdr.Header.SIZE
HeaderMissing(buf) == Len(buf) < HEADER_SIZE

\* Mutant of IsComplete: at least message_length bytes count as complete.
IsCompleteAtLeast(buf, ml) == Len(buf) >= ml

\* len(self._buffer) == message_length
IsComplete(buf, ml) == Len(buf) = ml

\* len(self._buffer) > message_length
IsOverflow(buf, ml) == Len(buf) > ml

\* Mutant of Clear: the returned bytes stay in the buffer.
ClearNothing(buf) == buf

\* self._buffer.clear()
Clear(buf) == <<>>

\* History only: whether a receive() entering now starts on an empty buffer,
\* at a message boundary of the peer, with no other receive() in flight.
CleanStart(t) ==
    /\ buffer = <<>>
    /\ peerPos = Len(peerMsg)
    /\ \A u \in Callers \ {t} : ~InReceive(u)

\* Lines 120-123: the connection check, then the unconditional first
\* Condition.wait().
ReceiveEnter(t) ==
    IF CheckConnectedRaises(connected)
    THEN /\ Finish(t, Err("receive", "SMPBLETransportDeviceNotFound", 121))
         /\ UNCHANGED <<waiters, clean>>
    ELSE /\ pc' = [pc EXCEPT ![t] = "wait_hdr"]
         /\ result' = [result EXCEPT ![t] = Pending("receive")]
         /\ waiters' = Append(waiters, t)
         /\ clean' = IF t = "app" /\ CleanStart(t) THEN 1 ELSE 0

ReceiveCall(t) ==
    /\ pc[t] = "idle"
    /\ ReceiveEnter(t)
    /\ IF t = "app" THEN ForgetSend ELSE UNCHANGED sendVars
    /\ UNCHANGED <<connected, buffer, message_length, linkVars,
                   disconnectTask, peerVars, cbRaised, unlocked, accepted>>

\* receive() is left (return or raise) with r: its local message_length dies.
ReceiveLeave(t, r) ==
    /\ Finish(t, r)
    /\ message_length' = [message_length EXCEPT ![t] = 0]

\* Lines 138-147: one iteration of the loop waiting for the rest of the
\* message, with message_length = ml.
LoopIteration(t, ml) ==
    IF CheckConnectedRaises(connected)
    THEN /\ ReceiveLeave(t, Err("receive", "SMPBLETransportDeviceNotFound", 139))
         /\ UNCHANGED <<buffer, waiters, unlocked, accepted>>
    ELSE IF IsComplete(buffer, ml)
    THEN /\ ReceiveLeave(t, Ok("receive", buffer))
         /\ buffer' = Clear(buffer)
         /\ unlocked' = Assigns(unlocked, "buffer", TRUE)
         /\ accepted' = <<>>
         /\ UNCHANGED waiters
    ELSE IF IsOverflow(buffer, ml)
    THEN /\ ReceiveLeave(t, Err("receive", "SMPBLETransportException", 146))
         /\ UNCHANGED <<buffer, waiters, unlocked, accepted>>
    ELSE /\ pc' = [pc EXCEPT ![t] = "wait_body"]
         /\ message_length' = [message_length EXCEPT ![t] = ml]
         /\ waiters' = Append(waiters, t)
         /\ UNCHANGED <<buffer, result, unlocked, accepted>>

\* Lines 123-147: receive() resumes from the first wait, decodes the header
\* and runs the first iteration of the loop (no suspension in between).
ReceiveHeader(t) ==
    /\ pc[t] = "wait_hdr"
    /\ Woken(t)
    /\ IF CheckConnectedRaises(connected)
       THEN /\ ReceiveLeave(t, Err("receive", "SMPBLETransportDeviceNotFound", 124))
            /\ UNCHANGED <<buffer, waiters, unlocked, accepted>>
       ELSE IF HeaderMissing(buffer)
       THEN /\ ReceiveLeave(t, Err("receive", "SMPBLETransportException", 127))
            /\ UNCHANGED <<buffer, waiters, unlocked, accepted>>
       ELSE LoopIteration(t, MessageLength(buffer))
    /\ UNCHANGED <<connected, clean, linkVars, disconnectTask, sendVars, peerVars,
                   cbRaised>>

\* Lines 147, 138-147: receive() resumes from the wait inside the loop.
ReceiveBody(t) ==
    /\ pc[t] = "wait_body"
    /\ Woken(t)
    /\ LoopIteration(t, message_length[t])
    /\ UNCHANGED <<connected, clean, linkVars, disconnectTask, sendVars, peerVars,
                   cbRaised>>

\* ------------------------------------------------------ _notify_callback
\* Mutant of Extend: the chunk is put in front of the buffer.
ExtendFront(buf, data) == data \o buf

\* Mutant of Extend: the chunk is appended twice.
ExtendTwice(buf, data) == buf \o data \o data

\* self._buffer.extend(data)
Extend(buf, data) == buf \o data

\* Mutant of UnexpectedSender: every sender is taken for the SMP characteristic.
UnexpectedSenderNever(sender) == FALSE

\* sender.uuid != str(SMP_CHARACTERISTIC_UUID)
UnexpectedSender(sender) == sender # "SMP_CHARACTERISTIC_UUID"

\* The link delivers the next k bytes of the peer's response (or, from another
\* characteristic, bytes that are not part of it) to _notify_callback.
NotifyCallback(sender, k) ==
    /\ link = "up"
    /\ subscribed
    /\ IF UnexpectedSender(sender)
       THEN /\ k = 1
            /\ cbRaised' = TRUE
            /\ UNCHANGED <<buffer, waiters, peerPos, unlocked, accepted>>
       ELSE /\ k \in 1..(Len(peerMsg) - peerPos)
            /\ accepted' = accepted \o SubSeq(peerMsg, peerPos + 1, peerPos + k)
            /\ buffer' = Extend(buffer, Slice(peerMsg, peerPos, peerPos + k))
            /\ unlocked' = Assigns(unlocked, "buffer", TRUE)
            /\ waiters' = Notify(waiters)
            /\ peerPos' = peerPos + k
            /\ cbRaised' = FALSE
    /\ UNCHANGED <<connected, pc, result, recvVars, linkVars, disconnectTask, sendVars,
                   peerMsg, nmsgs>>

\* The peer starts a response whose header declares len payload bytes.
PeerStart(len) ==
    /\ link = "up"
    /\ subscribed
    /\ peerPos = Len(peerMsg)
    /\ nmsgs < MaxMsgs
    /\ peerMsg' = MkMessage(len, nmsgs + 1)
    /\ peerPos' = 0
    /\ nmsgs' = nmsgs + 1
    /\ clean' = IF InReceive("app") /\ clean = 1 THEN 2 ELSE 0
    /\ UNCHANGED <<connected, buffer, waiters, pc, result, message_length,
                   linkVars, disconnectTask, sendVars, cbRaised, unlocked, accepted>>

\* ------------------------------------------------------------ disconnect
\* _handle_disconnect: whether a _notify_disconnected() task is pending after it.
HandleDisconnect(c, task) == IF ~c THEN task ELSE TRUE

\* The link loses the peer and calls disconnected_callback.
PeerDisconnect ==
    /\ link = "up"
    /\ link' = "down"
    /\ subscribed' = FALSE
    /\ peerMsg' = <<>>
    /\ peerPos' = 0
    /\ disconnectTask' = HandleDisconnect(connected, disconnectTask)
    /\ clean' = 0
    /\ UNCHANGED <<connected, buffer, waiters, pc, result, message_length, charSet,
                   mtu_size, nconnects, sendVars, nmsgs, cbRaised, unlocked, accepted>>

\* _notify_disconnected, the task created by _handle_disconnect.
NotifyDisconnected ==
    /\ disconnectTask
    /\ disconnectTask' = FALSE
    /\ connected' = FALSE
    /\ unlocked' = Assigns(unlocked, "connected", TRUE)
    /\ UNCHANGED accepted
    /\ waiters' = Notify(waiters)
    /\ UNCHANGED <<buffer, pc, result, recvVars, linkVars, sendVars, peerVars,
                   cbRaised>>

\* disconnect(), up to the suspension in self._client.disconnect(): the link is
\* torn down and calls disconnected_callback.
DisconnectCall(t) ==
    /\ t = "app"
    /\ pc[t] = "idle"
    /\ IF link = "none"
       THEN /\ Finish(t, Err("disconnect", "AttributeError", 101))
            /\ UNCHANGED <<link, subscribed, peerMsg, peerPos, disconnectTask>>
       ELSE /\ pc' = [pc EXCEPT ![t] = "disconnecting"]
            /\ result' = [result EXCEPT ![t] = Pending("disconnect")]
            /\ link' = "down"
            /\ subscribed' = FALSE
            /\ peerMsg' = <<>>
            /\ peerPos' = 0
            /\ disconnectTask' = IF link = "up"
                                 THEN HandleDisconnect(connected, disconnectTask)
                                 ELSE disconnectTask
    /\ ForgetSend
    /\ clean' = 0
    /\ UNCHANGED <<connected, buffer, waiters, message_length, charSet, mtu_size,
                   nconnects, nmsgs, cbRaised, unlocked, accepted>>

\* disconnect() resumes from self._client.disconnect() and returns.  Whether
\* the loop resumes it before or after the _notify_disconnected() task is
\* the link's choice (the order in which it completes the call and calls
\* disconnected_callback).
DisconnectReturn(t) ==
    /\ pc[t] = "disconnecting"
    /\ Finish(t, Ok("disconnect", None))
    /\ UNCHANGED <<connected, buffer, waiters, recvVars, linkVars, disconnectTask,
                   sendVars, peerVars, cbRaised, unlocked, accepted>>

\* ---------------------------------------------------------------- send()
\* The data handed to send(): n bytes, each naming its own position.
Data(n) == [i \in 1..n |-> i]

\* data[offset : offset + self.mtu]
Segment(data, offset, mtu) == Slice(data, offset, offset + mtu)

\* Mutant of NextOffset: the loop skips a byte between two segments.
NextOffsetSkip(offset, step) == offset + step + 1

\* The next value of `for offset in range(0, len(data), step)` after offset.
NextOffset(offset, step) == offset + step

\* send() returns; inside send_and_receive() the caller goes on into
\* receive() without suspending.
SendFinish(t, thenRecv) ==
    IF thenRecv
    THEN ReceiveEnter(t)
    ELSE /\ Finish(t, Ok("send", None))
         /\ UNCHANGED <<waiters, clean>>

\* send() is left: its locals die.
SendLocalsDie ==
    /\ sendStep' = 0
    /\ sendOffset' = 0
    /\ sendSeg' = <<>>

\* Lines 109-113 up to the first write_gatt_char(): send(data), or
\* send_and_receive(data) when thenRecv.
SendCall(t, n, thenRecv) ==
    /\ t = "app"
    /\ pc[t] = "idle"
    /\ sendThenRecv' = thenRecv
    /\ sendData' = Data(n)
    /\ written' = <<>>
    /\ mtuStable' = TRUE
    /\ IF link = "none"
       THEN /\ Finish(t, Err("send", "AttributeError", 109))
            /\ SendLocalsDie
            /\ UNCHANGED <<waiters, clean>>
       ELSE IF n = 0
       THEN /\ SendFinish(t, thenRecv)
            /\ SendLocalsDie
       ELSE IF ~charSet
       THEN /\ Finish(t, Err("send", "AttributeError", 112))
            /\ SendLocalsDie
            /\ UNCHANGED <<waiters, clean>>
       ELSE /\ sendStep' = Mtu(mtu_size)
            /\ sendOffset' = 0
            /\ sendSeg' = Segment(Data(n), 0, Mtu(mtu_size))
            /\ pc' = [pc EXCEPT ![t] = "send_write"]
            /\ result' = [result EXCEPT ![t] = Pending("send")]
            /\ UNCHANGED <<waiters, clean>>
    /\ UNCHANGED <<connected, buffer, message_length, linkVars,
                   disconnectTask, peerVars, cbRaised, unlocked, accepted>>

\* Mutant of WriteRaised: the segment whose write failed is written after all.
WriteRaisedThenRetried(w, seg) == Append(w, seg)

\* Lines 111-113: write_gatt_char() raises and the exception leaves the for
\* loop and send(); the link has written what it had written before.
WriteRaised(w, seg) == w

\* The write_gatt_char() in flight completes; the loop takes its next offset
\* and issues the next write, or send() returns.  A link that is down raises.
SendWriteDone(t) ==
    /\ pc[t] = "send_write"
    /\ IF link # "up"
       THEN /\ Finish(t, Err("send", "LinkError", 111))
            /\ SendLocalsDie
            /\ written' = WriteRaised(written, sendSeg)
            /\ UNCHANGED <<waiters, clean>>
       ELSE /\ written' = Append(written, sendSeg)
            /\ IF NextOffset(sendOffset, sendStep) < Len(sendData)
               THEN /\ sendOffset' = NextOffset(sendOffset, sendStep)
                    /\ sendSeg' = Segment(sendData, NextOffset(sendOffset, sendStep),
                                          Mtu(mtu_size))
                    /\ UNCHANGED <<pc, result, waiters, clean, sendStep>>
               ELSE /\ SendFinish(t, sendThenRecv)
                    /\ SendLocalsDie
    /\ UNCHANGED <<connected, buffer, message_length, linkVars,
                   disconnectTask, sendData, sendThenRecv, mtuStable,
                   peerVars, cbRaised, unlocked, accepted>>

\* The write_gatt_char() in flight fails on a link that is up (a write
\* timeout); the link's error leaves send().
SendWriteFail(t) ==
    /\ pc[t] = "send_write"
    /\ link = "up"
    /\ Finish(t, Err("send", "LinkError", 111))
    /\ SendLocalsDie
    /\ written' = WriteRaised(written, sendSeg)
    /\ UNCHANGED <<connected, buffer, waiters, recvVars, linkVars, disconnectTask,
                   sendData, sendThenRecv, mtuStable, peerVars, cbRaised, unlocked, accepted>>

\* The link renegotiates the MTU.
Renegotiate(size) ==
    /\ link = "up"
    /\ size # mtu_size
    /\ mtu_size' = size
    /\ mtuStable' = FALSE
    /\ UNCHANGED <<connected, buffer, waiters, pc, result, recvVars, link, subscribed,
                   charSet, nconnects, disconnectTask, sendData, sendStep, sendOffset,
                   sendSeg, sendThenRecv, written, peerVars, cbRaised, unlocked, accepted>>

\* ------------------------------------------------------------- connect()
\* connect() is called on a transport whose link is not up.  A
\* _notify_disconnected() task created earlier is already in the loop's ready
\* queue and runs before any link I/O of connect() completes.
CanConnect(t) ==
    /\ t = "app"
    /\ pc[t] = "idle"
    /\ link # "up"
    /\ ~disconnectTask

\* Lines 63-74: the scanner finds no device.
ConnectNotFound(t) ==
    /\ CanConnect(t)
    /\ Finish(t, Err("connect", "SMPBLETransportDeviceNotFound", 74))
    /\ ForgetSend
    /\ UNCHANGED <<connected, buffer, waiters, recvVars, linkVars, disconnectTask,
                   peerVars, cbRaised, unlocked, accepted>>

\* Lines 77-80: self._client is created and self._client.connect() raises.
ConnectLinkError(t) ==
    /\ CanConnect(t)
    /\ link' = "down"
    /\ subscribed' = FALSE
    /\ Finish(t, Err("connect", "LinkError", 80))
    /\ ForgetSend
    /\ UNCHANGED <<connected, buffer, waiters, recvVars, charSet, mtu_size,
                   nconnects, disconnectTask, peerVars, cbRaised, unlocked, accepted>>

\* Lines 77-97: the link is established, with the smallest MTU until the
\* link negotiates another; hasSmp says whether the device has the SMP
\* characteristic.  With it, connect() suspends in start_notify().
ConnectLink(t, hasSmp) ==
    /\ CanConnect(t)
    /\ nconnects < MaxConnects
    /\ nconnects' = nconnects + 1
    /\ link' = "up"
    /\ subscribed' = FALSE
    /\ mtu_size' = ATT_OVERHEAD + 1
    /\ connected' = TRUE
    /\ unlocked' = Assigns(unlocked, "connected", FALSE)
    /\ UNCHANGED accepted
    /\ IF ~hasSmp
       THEN /\ Finish(t, Err("connect", "SMPBLETransportNotSMPServer", 92))
            /\ UNCHANGED charSet
       ELSE /\ charSet' = TRUE
            /\ pc' = [pc EXCEPT ![t] = "connect_notify"]
            /\ result' = [result EXCEPT ![t] = Pending("connect")]
    /\ ForgetSend
    /\ UNCHANGED <<buffer, waiters, recvVars, disconnectTask, peerVars,
                   cbRaised>>

\* Lines 97-98: start_notify() completes and connect() returns; on a link that
\* went down meanwhile it raises.
ConnectStartNotify(t) ==
    /\ pc[t] = "connect_notify"
    /\ IF link = "up"
       THEN /\ subscribed' = TRUE
            /\ Finish(t, Ok("connect", None))
       ELSE /\ Finish(t, Err("connect", "LinkError", 97))
            /\ UNCHANGED subscribed
    /\ UNCHANGED <<connected, buffer, waiters, recvVars, link, charSet, mtu_size,
                   nconnects, disconnectTask, sendVars, peerVars, cbRaised, unlocked, accepted>>

MtuSizes == (ATT_OVERHEAD + 1)..MaxMtuSize

\* ------------------------------------------------------ next-state relation
\* connect(), disconnect() and the link going down.
Lifecycle ==
    \/ \E t \in Callers : ConnectNotFound(t)
    \/ \E t \in Callers : ConnectLinkError(t)
    \/ \E t \in Callers, h \in BOOLEAN : ConnectLink(t, h)
    \/ \E t \in Callers : ConnectStartNotify(t)
    \/ \E t \in Callers : DisconnectCall(t)
    \/ \E t \in Callers : DisconnectReturn(t)
    \/ PeerDisconnect
    \/ NotifyDisconnected

\* receive() and the notifications of the SMP characteristic feeding it.
Receiving ==
    \/ ReceiveCall("app")
    \/ \E t \in Callers : ReceiveHeader(t)
    \/ \E t \in Callers : ReceiveBody(t)
    \/ \E k \in 1..(HEADER_SIZE + MaxPayload) :
          NotifyCallback("SMP_CHARACTERISTIC_UUID", k)
    \/ \E len \in 0..MaxPayload : PeerStart(len)

\* A second task calls receive(), whether or not one is in flight.
SecondReceiver == ReceiveCall("rx2")

\* A notification from another characteristic reaches _notify_callback.
ForeignNotification == NotifyCallback("OTHER_UUID", 1)

\* send() and the link's MTU.
Sending ==
    \/ \E t \in Callers, n \in 0..MaxData : SendCall(t, n, FALSE)
    \/ \E t \in Callers : SendWriteDone(t)
    \/ \E t \in Callers : SendWriteFail(t)
    \/ \E size \in MtuSizes : Renegotiate(size)

\* send_and_receive()
SendingAndReceiving ==
    \E t \in Callers, n \in 0..MaxData : SendCall(t, n, TRUE)

Next == Lifecycle \/ Receiving \/ ForeignNotification \/ Sending \/ SendingAndReceiving

\* The whole transport, under the caller's discipline of one call at a time.
Spec == Init /\ [][Next]_vars

\* The receive side alone: the caller never calls send().
RecvNext == Lifecycle \/ Receiving
RecvSpec == Init /\ [][RecvNext]_vars

\* The receive side with a caller that breaks the discipline of one receive()
\* in flight.
ConcurrentRecvNext == RecvNext \/ SecondReceiver
ConcurrentRecvSpec == Init /\ [][ConcurrentRecvNext]_vars

\* The receive side with notifications of another characteristic reaching the
\* handler.
ForeignRecvNext == RecvNext \/ ForeignNotification
ForeignRecvSpec == Init /\ [][ForeignRecvNext]_vars

\* The send side alone: the caller never calls receive().
SendNext == Lifecycle \/ Sending
SendSpec == Init /\ [][SendNext]_vars

\* The event loop runs every task that is ready: a receive() that has been
\* notified resumes, a created _notify_disconnected() task runs, and a
\* completed link call resumes its caller.  Nothing obliges the caller to
\* call, or the peer to notify or to disconnect.
LoopFairness ==
    /\ WF_vars(\E t \in Callers : ReceiveHeader(t))
    /\ WF_vars(\E t \in Callers : ReceiveBody(t))
    /\ WF_vars(NotifyDisconnected)
    /\ WF_vars(\E t \in Callers : ConnectStartNotify(t))
    /\ WF_vars(\E t \in Callers : DisconnectReturn(t))

FairRecvSpec == RecvSpec /\ LoopFairness

FairConcurrentRecvSpec == ConcurrentRecvSpec /\ LoopFairness

\* ================================================================ claims
\* The buffer holds exactly one full message: a header and as many payload
\* bytes as the header declares.
OneFullMessage(buf) ==
    /\ Len(buf) >= HEADER_SIZE
    /\ Len(buf) = buf[3] * 256 + buf[4] + HEADER_SIZE

\* The task's receive() takes a step: it was notified and resumes.
Resumes(t) == Woken(t) /\ ~Woken(t)'

NotConnectedAt(t, l) == result[t] = Err("receive", "SMPBLETransportDeviceNotFound", l)

\* C1: with a single receive() caller and the state Connected, once the
\* buffer holds exactly one full message a pending receive() eventually
\* returns it (unless the state leaves Connected or further bytes arrive),
\* whatever the order of the notifications and the start of receive().
C1_CompleteMessageIsReturned ==
    (InReceive("app") /\ connected /\ OneFullMessage(buffer))
        ~> \/ pc["app"] = "idle" /\ result["app"].kind = "ok"
           \/ ~connected
           \/ InReceive("app") /\ ~OneFullMessage(buffer)

\* C2: a receive() blocked in either wait when the link delivers a peer
\* disconnect is woken and ends with the error of _check_connected; no
\* receive() stays pending once the state is Disconnected.
C2_DisconnectWakesReceive ==
    /\ (Blocked("app") /\ disconnectTask)
          ~> (NotConnectedAt("app", 124) \/ NotConnectedAt("app", 139))
    /\ (InReceive("app") /\ ~connected) ~> ~InReceive("app")

\* C2 witness: a receive() that was waiting for the rest of its message has
\* ended with the error of _check_connected.
C2_Witness == NotConnectedAt("app", 139)

\* The total length the header at the front of buf declares.
DeclaredLength(buf) == buf[3] * 256 + buf[4] + HEADER_SIZE

\* The task's receive() returns a value in this step.
Returns(t) ==
    /\ Resumes(t)
    /\ pc'[t] = "idle"
    /\ result'[t].kind = "ok"

\* C3: receive() returns only when len(buffer) equals the total length its
\* decoded header declares, it returns exactly those bytes, and a check that
\* finds more bytes than that raises SMPBLETransportException (line 146) and
\* returns nothing.
C3_HeaderLengthEnforced ==
    [][\A t \in Callers :
        /\ Returns(t) =>
              /\ Len(buffer) >= HEADER_SIZE
              /\ Len(buffer) = DeclaredLength(buffer)
              /\ result'[t].value = buffer
              /\ Len(result'[t].value) = DeclaredLength(result'[t].value)
        /\ (Resumes(t) /\ pc'[t] = "wait_body") =>
              /\ Len(buffer) >= HEADER_SIZE
              /\ message_length'[t] = DeclaredLength(buffer)
              /\ Len(buffer) < message_length'[t]
        /\ (/\ Resumes(t)
            /\ connected
            /\ Len(buffer) >= HEADER_SIZE
            /\ Len(buffer) > (IF pc[t] = "wait_body" THEN message_length[t]
                                                     ELSE DeclaredLength(buffer))) =>
              /\ result'[t] = Err("receive", "SMPBLETransportException", 146)
              /\ pc'[t] = "idle"
              /\ buffer' = buffer
    ]_vars

\* C3 witness: receive() has refused a buffer longer than its header declares.
C3_Witness ==
    /\ result["app"] = Err("receive", "SMPBLETransportException", 146)
    /\ Len(buffer) > DeclaredLength(buffer)

Calls(t, op) ==
    /\ pc[t] = "idle"
    /\ result'[t].op = op
    /\ pc'[t] # "idle" \/ result'[t] # result[t]

\* C6: a send() or receive() called while the state is Disconnected fails at
\* once with the error of _check_connected: send() writes nothing to the
\* link and receive() does not wait on the condition.
C6_FailsAtOnceWhenDisconnected ==
    [][\A t \in Callers :
        (~connected /\ (Calls(t, "send") \/ Calls(t, "receive"))) =>
            /\ pc'[t] = "idle"
            /\ result'[t].kind = "SMPBLETransportDeviceNotFound"
            /\ waiters' = waiters
            /\ sendSeg' = <<>>
    ]_vars

RECURSIVE Concat(_)
Concat(segs) == IF segs = <<>> THEN <<>> ELSE Head(segs) \o Concat(Tail(segs))

\* ceil(len(data) / mtu) consecutive segments of data of size mtu, the last
\* one holding what is left.
SegmentsOf(data, mtu) ==
    [i \in 1..((Len(data) + mtu - 1) \div mtu) |->
        SubSeq(data, (i - 1) * mtu + 1, Min(i * mtu, Len(data)))]

\* C7: with the MTU constant during the call, send(data) writes the
\* ceil(len(data)/mtu) segments data[offset : offset + mtu] in order, one
\* write in flight at a time, each of size <= mtu and only the last one
\* shorter, their concatenation being data, and returns only after the last.
C7_SendWritesSegmentsInOrder ==
    (result["app"].op = "send" /\ mtuStable) =>
        LET mtu == Mtu(mtu_size)
            segs == SegmentsOf(sendData, mtu)
        IN  /\ Len(written) <= Len(segs)
            /\ written = SubSeq(segs, 1, Len(written))
            /\ \A i \in DOMAIN written :
                  /\ Len(written[i]) \in 1..mtu
                  /\ Len(written[i]) < mtu => i = Len(segs)
            /\ pc["app"] = "send_write" =>
                  /\ Len(written) < Len(segs)
                  /\ sendSeg = segs[Len(written) + 1]
            /\ (pc["app"] = "idle" /\ result["app"].kind = "ok") =>
                  /\ Len(written) = (Len(sendData) + mtu - 1) \div mtu
                  /\ Concat(written) = sendData

\* C7 witness: send() has returned after writing a full segment and a shorter
\* last one.
C7_Witness ==
    /\ pc["app"] = "idle"
    /\ result["app"] = Ok("send", None)
    /\ mtuStable
    /\ Len(written) = 2
    /\ Len(written[2]) < Len(written[1])

\* C8: when connect() fails with SMPBLETransportDeviceNotFound or with
\* SMPBLETransportNotSMPServer, the state is Disconnected.
C8_FailedConnectLeavesDisconnected ==
    \A t \in Callers :
        (/\ pc[t] = "idle"
         /\ result[t].op = "connect"
         /\ result[t].kind \in {"SMPBLETransportDeviceNotFound",
                                "SMPBLETransportNotSMPServer"})
            => ~connected

\* C9: a receive() that resumes from either wait with the state Disconnected
\* raises the error of _check_connected and leaves the buffer alone, even a
\* buffer holding a complete message; a receive() returns a message only with
\* the state Connected.
C9_NoReturnAfterDisconnect ==
    [][\A t \in Callers :
        /\ (Resumes(t) /\ ~connected) =>
              /\ pc'[t] = "idle"
              /\ result'[t] = Err("receive", "SMPBLETransportDeviceNotFound",
                                  IF pc[t] = "wait_hdr" THEN 124 ELSE 139)
              /\ buffer' = buffer
        /\ Returns(t) => connected /\ connected'
    ]_vars

\* C9 witness: a receive() waiting for the rest of its message was notified of
\* the last chunk, the state became Disconnected before it resumed, and it
\* raised with the complete message still in the buffer.
C9_Witness ==
    /\ NotConnectedAt("app", 139)
    /\ pc["app"] = "idle"
    /\ ~connected
    /\ OneFullMessage(buffer)

\* C10: when disconnect(), called on a transport that connect() has connected,
\* returns, the state is Disconnected.
C10_DisconnectedWhenDisconnectReturns ==
    \A t \in Callers :
        (pc[t] = "idle" /\ result[t] = Ok("disconnect", None) /\ charSet)
            => ~connected

\* C11: when a write_gatt_char() of send() fails, the link's error leaves
\* send() to its caller at once: the failed segment is not written again, no
\* later segment of the data is written, and no write is left in flight.
C11_WriteErrorPropagated ==
    /\ [][(pc["app"] = "send_write" /\ result'["app"].kind # "none") =>
            \/ /\ result'["app"] = Err("send", "LinkError", 111)
               /\ pc'["app"] = "idle"
               /\ written' = written
               /\ sendSeg' = <<>>
               /\ waiters' = waiters
            \/ /\ result'["app"].kind \in {"ok", "SMPBLETransportDeviceNotFound"}
               /\ written' = Append(written, sendSeg)
       ]_vars
    /\ [][(/\ pc["app"] = "idle"
           /\ result["app"] = Err("send", "LinkError", 111)
           /\ pc'["app"] = "idle"
           /\ result'["app"] = result["app"]) => written' = written]_vars
    /\ [](result["app"] = Err("send", "LinkError", 111) =>
            /\ pc["app"] = "idle"
            /\ Len(Concat(written)) < Len(sendData) \/ ~mtuStable)

\* C11 witness: the second write of a send() failed on a link that is up; the
\* first segment is all the link has written.
C11_Witness ==
    /\ result["app"] = Err("send", "LinkError", 111)
    /\ link = "up"
    /\ mtuStable
    /\ Len(written) = 1
    /\ Len(written[1]) < Len(sendData)

\* buf is a proper prefix of buf2.
ProperPrefix(buf, buf2) ==
    /\ Len(buf) < Len(buf2)
    /\ SubSeq(buf2, 1, Len(buf)) = buf

\* C12: the buffer is cleared exactly once per completed message, in the
\* step in which receive() returns it: every return hands over the whole
\* buffer, holding one full message, and leaves the buffer empty; nothing
\* else ever removes a byte, the only other change being the handler
\* appending bytes the link had not delivered before.  So no byte is
\* returned twice, and a following receive() returns only after new chunks
\* have built a full message again.
C12_ClearedOncePerMessage ==
    [][/\ \A t \in Callers :
            Returns(t) =>
               /\ OneFullMessage(buffer)
               /\ result'[t] = Ok("receive", buffer)
               /\ buffer' = <<>>
               /\ \A u \in Callers \ {t} : result'[u] = result[u]
       /\ buffer' # buffer =>
            \/ /\ buffer' = <<>>
               /\ \E t \in Callers : Returns(t)
            \/ /\ ProperPrefix(buffer, buffer')
               /\ peerMsg' = peerMsg
               /\ peerPos' = peerPos + (Len(buffer') - Len(buffer))
               /\ pc' = pc
               /\ result' = result
      ]_vars

\* C12 witness: on one connection a second response has been returned, exactly
\* and alone, after the first was delivered whole; the buffer is empty.
C12_Witness ==
    /\ nconnects = 1
    /\ nmsgs = 2
    /\ pc["app"] = "idle"
    /\ result["app"] = Ok("receive", peerMsg)
    /\ peerMsg[7] = 2
    /\ buffer = <<>>

\* The class of the error connect() raises when no device is found (line 74).
ResolutionFailure == Err("connect", "SMPBLETransportDeviceNotFound", 74).kind

\* The task's receive() ended in one of its connection checks.
FailedConnectionCheck(t) ==
    /\ pc[t] = "idle"
    /\ result[t].op = "receive"
    /\ result[t].line \in {121, 124, 139}

\* C13: the error a receive() gets when it is called in the state
\* Disconnected, or when the state becomes Disconnected while it is pending,
\* is of a class other than the one connect() raises when it finds no device.
C13_NotConnectedErrorIsDistinct ==
    \A t \in Callers : FailedConnectionCheck(t) => result[t].kind # ResolutionFailure

\* C14: every assignment to the buffer (the handler's extend, receive()'s
\* clear) and to self.connected (connect(), _notify_disconnected) is made
\* inside `async with self._notify_condition`.
C14_SharedStateAssignedUnderLock == unlocked = {}

\* C15: whether or not the link's MTU changes between two writes of a
\* send(data), the segments written so far are consecutive pieces of data
\* starting at its first byte, and when send() returns their concatenation
\* is data: no byte is skipped or written twice.
C15_SegmentsContiguousAcrossMtuChange ==
    result["app"].op = "send" =>
        /\ Len(Concat(written)) <= Len(sendData)
        /\ Concat(written) = SubSeq(sendData, 1, Len(Concat(written)))
        /\ (pc["app"] = "idle" /\ result["app"].kind = "ok") =>
               Concat(written) = sendData

\* The responses the peer can send, whole.
PeerMessages == {MkMessage(len, seq) : len \in 0..MaxPayload, seq \in 1..MaxMsgs}

\* C16: also after a disconnect and a reconnect on the same transport, what
\* a receive() returns is exactly one whole response of the peer: bytes the
\* buffer holds from before the disconnect are no part of it and do not
\* move its boundaries.
C16_NoStaleBytesAfterReconnect ==
    \A t \in Callers :
        (pc[t] = "idle" /\ result[t].op = "receive" /\ result[t].kind = "ok")
            => result[t].value \in PeerMessages

\* C17: when two receive() calls are blocked in Condition.wait() and the
\* link's disconnect is about to be made known (_notify_disconnected is
\* scheduled), each of them is woken and leaves receive(); none stays
\* waiting forever.
C17_AllBlockedReceiversFail ==
    \A t \in Callers :
        (Blocked("app") /\ Blocked("rx2") /\ disconnectTask) ~> ~InReceive(t)

\* C18: in every reachable state the buffer is the concatenation, in the
\* order of delivery, of the chunks _notify_callback accepted since the
\* buffer was last cleared; and the handler only appends: whatever
\* receive() calls are in flight, a notification leaves what the buffer
\* held in front of the new chunk.
C18_BufferIsChunksInOrder ==
    /\ [](buffer = accepted)
    /\ [][peerPos' > peerPos =>
            /\ ProperPrefix(buffer, buffer')
            /\ SubSeq(buffer', Len(buffer) + 1, Len(buffer')) =
                  SubSeq(peerMsg, peerPos + 1, peerPos')
       ]_vars

\* C18 witness: with a receive() in flight the buffer holds a whole response
\* and the first chunk of the next one, delivered after it.
C18_Witness ==
    /\ InReceive("app")
    /\ nmsgs = 2
    /\ peerPos \in 1..(Len(peerMsg) - 1)
    /\ Len(buffer) > Len(peerMsg)
    /\ SubSeq(buffer, Len(buffer) - peerPos + 1, Len(buffer)) = SubSeq(peerMsg, 1, peerPos)
    /\ buffer[7] = 1

\* C19: a notification whose sender is not the SMP characteristic makes
\* _notify_callback raise (line 151): its bytes are not appended, the buffer
\* and self.connected stay as they are, no waiter is notified and no
\* receive() call is affected.
C19_ForeignNotificationRejected ==
    [][ForeignNotification =>
          /\ cbRaised'
          /\ buffer' = buffer
          /\ accepted' = accepted
          /\ connected' = connected
          /\ waiters' = waiters
          /\ pc' = pc
          /\ result' = result
          /\ message_length' = message_length
    ]_vars

\* C19 witness: the handler has just rejected a notification while a
\* receive() is blocked waiting for the rest of a partly received message.
C19_Witness ==
    /\ cbRaised
    /\ connected
    /\ Blocked("app")
    /\ pc["app"] = "wait_body"
    /\ Len(buffer) \in HEADER_SIZE..(message_length["app"] - 1)
====
